---- MODULE Spec2Model ----
(***************************************************************************)
(* Model of the tsot storage backends.                                     *)
(*                                                                         *)
(*  - IMCModule (src/src/storage/imc): three DashMaps (string_store,       *)
(*    data_store, atomic_store).  A DashMap is sharded; `get` returns a    *)
(*    Ref that holds the shard's read lock until it is dropped, `insert`   *)
(*    and `remove` take the shard's write lock for the duration of the     *)
(*    call.  The sync and the async implementation run the same map calls  *)
(*    in the same order, so one set of actions models both.                *)
(*  - RedisStorageModule (src/src/storage/redis): every trait method is a  *)
(*    sequence of Redis commands, each executed atomically by the server.  *)
(***************************************************************************)
EXTENDS Integers, Sequences, FiniteSets, TLC

VARIABLES
    clock,          \* what now() returns: seconds since the Unix epoch
    shape,          \* the value shape (map) the callers of this run work on
    shard_of,       \* per map, the shard each key hashes to
    string_store,   \* IMCModule.string_store : key -> (String, Option<u64>)
    data_store,     \* IMCModule.data_store   : key -> (Vec<u8>, Option<u64>)
    atomic_store,   \* IMCModule.atomic_store : key -> AtomicI64
    refs,           \* per thread, the dashmap Ref (shard read guard) it holds
    pc,             \* per thread, its position inside the running call
    op,             \* per thread, the call it runs and its arguments
    current_time,   \* per thread, the local `current_time` of store_with_expiry
    ret,            \* per thread, its last completed call and what it returned
    last_store,     \* history: per map and key, the last completed store
    calls,          \* number of calls made so far
    incs,           \* history: per counter key, increments by 1 since atomic_store(k, 0)
    redis           \* the Redis server's keyspace

vars == <<clock, shape, shard_of, string_store, data_store,
          atomic_store, refs, pc, op, current_time, ret, last_store, calls, incs, redis>>

---------------------------------------------------------------------------
(* Bounds of the model *)

\* The clock runs from StartClock to MaxClock.
MaxClock == 3
\* The callers make at most MaxCalls calls in total on string and raw values
\* and on Redis, and at most MaxCounterCalls on the in-process counters.
MaxCalls == 3
MaxCounterCalls == 4
\* u64 is modelled with U64Bits bits, i64 with I64Bits bits.
U64Bits == 3
I64Bits == 3

StartClock == 1
Keys == {"k1", "k2"}
Threads == {"t1", "t2"}
Shards == {"s1", "s2"}

U64Max == 2^U64Bits - 1
I64Max == 2^(I64Bits - 1) - 1
I64Min == -(2^(I64Bits - 1))

ExpiryMaps == {"string_store", "data_store"}
Maps == {"string_store", "data_store", "atomic_store"}

---------------------------------------------------------------------------
(* Option and result values *)

None == [tag |-> "None"]
Some(x) == [tag |-> "Some", val |-> x]

NoResult == [call |-> "none"]
OkUnit == [tag |-> "Unit"]
OkState(s) == [tag |-> "StoreState", val |-> s]
Panicked == [tag |-> "Panic"]
Err(e) == [tag |-> "Err", val |-> e]

NoRef == [tag |-> "NoRef"]
RefTo(m, k) == [tag |-> "Ref", map |-> m, key |-> k]

NoOp == [name |-> "none"]

\* The code never inspects a stored string or byte vector: every store call
\* passes a value of its own, which tells the stores apart.
Values == 1..MaxCalls
FreshValue == calls + 1

\* TTLs a caller passes: none, zero, one second, the largest u64.
Ttls == {None, Some(0), Some(1), Some(U64Max)}
\* Counter values and deltas a caller passes.
CounterValues == {0, 1, I64Max}
Deltas == {1, -1}

---------------------------------------------------------------------------
(* The maps *)

EmptyMap == [x \in {} |-> None]

Map(m) ==
    CASE m = "string_store" -> string_store
      [] m = "data_store" -> data_store
      [] m = "atomic_store" -> atomic_store

\* Variant of insert that drops the entries of the other keys.
MapInsertAlone(map, k, e) == [x \in {k} |-> e]

\* DashMap::insert: the map with k bound to e.
MapInsert(map, k, e) ==
    [x \in (DOMAIN map) \cup {k} |-> IF x = k THEN e ELSE map[x]]

\* Variant of remove that leaves the entry in the map.
MapKeep(map, k) == map

\* DashMap::remove: the map without k.
MapRemove(map, k) ==
    [x \in (DOMAIN map) \ {k} |-> map[x]]

\* Variant in which string and raw values live in one map.
SetMapAliased(m, new) ==
    /\ string_store' = IF m \in ExpiryMaps THEN new ELSE string_store
    /\ data_store' = IF m \in ExpiryMaps THEN new ELSE data_store
    /\ atomic_store' = IF m = "atomic_store" THEN new ELSE atomic_store

\* The map m becomes `new`, the other two maps stay as they are.
SetMap(m, new) ==
    /\ string_store' = IF m = "string_store" THEN new ELSE string_store
    /\ data_store' = IF m = "data_store" THEN new ELSE data_store
    /\ atomic_store' = IF m = "atomic_store" THEN new ELSE atomic_store

\* The threads that hold a Ref into the shard of key k of map m.
Readers(m, k) ==
    {t \in Threads : /\ refs[t].tag = "Ref"
                     /\ refs[t].map = m
                     /\ shard_of[m][refs[t].key] = shard_of[m][k]}

\* The shard's write lock can be taken only while no Ref into the shard is
\* alive, the caller's own Ref included: the lock is not re-entrant.
WriteLockFree(m, k) == Readers(m, k) = {}

---------------------------------------------------------------------------
(* Pure helpers of the in-process store *)

\* now() + e on u64: the wrapped sum (release build).
WrapU64(x) == x % (2^U64Bits)

\* Two's complement wrap-around of AtomicI64::fetch_add.
WrapI64(x) == ((x - I64Min) % (2^I64Bits)) + I64Min

\* Variants of the expiry guard that a slip would produce: one second late,
\* and `<=` for `<`.
IsExpiredLate(expiry, now) == expiry.tag = "Some" /\ expiry.val + 1 < now
IsExpiredAtInstant(expiry, now) == expiry.tag = "Some" /\ expiry.val <= now

\* The guard `Some(expiry) if expiry < &now()` of load.
IsExpired(expiry, now) == expiry.tag = "Some" /\ expiry.val < now

\* Variant of the store state that counts an expired entry as absent.
StoreStateOfLive(map, k) ==
    IF k \in DOMAIN map /\ ~IsExpired(map[k].expiry, clock) THEN "Updated" ELSE "New"

\* Variant of the store state that does not look at insert's result.
StoreStateAlwaysNew(map, k) == "New"

\* Variant of the store state with the two arms of the match swapped.
StoreStateSwapped(map, k) == IF k \in DOMAIN map THEN "New" ELSE "Updated"

\* `match output { None => New, Some(_) => Updated }` on insert's result.
StoreStateOf(map, k) == IF k \in DOMAIN map THEN "Updated" ELSE "New"

\* Variants of fetch_add: a plain store of the delta, and add_fetch (the new
\* value is returned).
StoreDeltaCell(c, d) == WrapI64(d)
AddFetchResult(c, d) == WrapI64(c + d)

\* Variant of fetch_add whose update is lost: the cell keeps its content.
FetchAddCellLost(c, d) == c

\* Variant of fetch_add that saturates at the ends of the i64 range.
FetchAddCellSaturating(c, d) ==
    IF c + d > I64Max THEN I64Max ELSE IF c + d < I64Min THEN I64Min ELSE c + d

\* fetch_add: the cell's new content.
FetchAddCell(c, d) == WrapI64(c + d)

\* fetch_add: the value it returns.
FetchAddResult(c, d) == c

---------------------------------------------------------------------------
(* Initial states *)

\* The shard a key falls into depends on the map's hasher: the two keys share
\* a shard or they do not (shard names are interchangeable).
ShardAssignments == {f \in [Keys -> Shards] : f["k1"] = "s1"}

InitCommon ==
    /\ clock = StartClock
    /\ string_store = EmptyMap
    /\ data_store = EmptyMap
    /\ atomic_store = EmptyMap
    /\ refs = [t \in Threads |-> NoRef]
    /\ pc = [t \in Threads |-> "idle"]
    /\ op = [t \in Threads |-> NoOp]
    /\ current_time = [t \in Threads |-> None]
    /\ ret = [t \in Threads |-> NoResult]
    /\ last_store = [m \in Maps |-> [k \in Keys |-> [tag |-> "unused"]]]
    /\ calls = 0
    /\ incs = [k \in Keys |-> -1]
    /\ redis = EmptyMap

\* IMCModule::new: three empty maps.  The callers work on string values or on
\* raw values.
Init ==
    /\ InitCommon
    /\ shape \in ExpiryMaps
    /\ \E f \in ShardAssignments : shard_of = [m \in Maps |-> f]

\* Time passes.
Tick ==
    /\ clock < MaxClock
    /\ clock' = clock + 1
    /\ UNCHANGED <<calls, shape, shard_of, string_store, data_store,
                   atomic_store, refs, pc, op, current_time, ret, last_store,
                   incs, redis>>

---------------------------------------------------------------------------
(* Thread-local bookkeeping *)

\* A completed call: its name, map and key, what it returned, and its number
\* in the order in which the calls were made.
Result(o, r) ==
    [call |-> o.name, map |-> o.map, key |-> o.key, res |-> r, n |-> calls + 1]
ResultOf(t, r) ==
    [call |-> op[t].name, map |-> op[t].map, key |-> op[t].key, res |-> r, n |-> op[t].n]
\* A completed store or delete, with (history) what it replaced or removed.
StoreResult(o, r, prev) ==
    [call |-> o.name, map |-> o.map, key |-> o.key, res |-> r, n |-> o.n, over |-> prev]
\* A completed increment, with (history) the delta it was called with.
IncrementResult(t, r) ==
    [call |-> op[t].name, map |-> op[t].map, key |-> op[t].key, res |-> r, n |-> op[t].n,
     arg |-> op[t].value]

\* The callers are interchangeable: the first call is t1's.
MayCall(t) ==
    /\ pc[t] = "idle"
    /\ calls < (IF shape = "atomic_store" THEN MaxCounterCalls ELSE MaxCalls)
    /\ calls = 0 => t = "t1"

\* Thread t starts call o and is now at label l.
Begin(t, o, l) ==
    /\ MayCall(t)
    /\ calls' = calls + 1
    /\ op' = [op EXCEPT ![t] = o]
    /\ pc' = [pc EXCEPT ![t] = l]
    /\ ret' = [ret EXCEPT ![t] = NoResult]

\* Thread t starts call o, which returns r in the same step.
BeginReturn(t, o, r) ==
    /\ MayCall(t)
    /\ calls' = calls + 1
    /\ ret' = [ret EXCEPT ![t] = Result(o, r)]
    /\ UNCHANGED <<pc, op>>

\* The call of thread t returns r; its Ref, if any, is dropped.
Return(t, r) ==
    /\ pc' = [pc EXCEPT ![t] = "idle"]
    /\ ret' = [ret EXCEPT ![t] = ResultOf(t, r)]
    /\ op' = [op EXCEPT ![t] = NoOp]
    /\ refs' = [refs EXCEPT ![t] = NoRef]

\* What the entry under k was when an insert replaced it.
PrevOf(map, k) ==
    IF k \notin DOMAIN map THEN "none"
    ELSE IF IsExpired(map[k].expiry, clock) THEN "expired"
    ELSE "live"

\* History of a store: the value, the instant call time + ttl (not wrapped)
\* and the number of the call.
Stored(v, deadline, n) ==
    [tag |-> "stored", value |-> v, deadline |-> deadline, n |-> n]

---------------------------------------------------------------------------
(* String and raw values: store_with_expiry, load, delete *)

\* store_with_expiry / store_raw_with_expiry, first statement:
\*   let current_time = expiry.map(|e| now() + e);
\* `now() + e` is a plain u64 addition: when the sum does not fit, a build with
\* overflow checks panics before the insert and a build without them wraps.
StoreWithExpiry(t, m, k, v, e) ==
    LET o == [name |-> "store", map |-> m, key |-> k, value |-> v, n |-> calls + 1,
              deadline |-> IF e.tag = "Some" THEN Some(clock + e.val) ELSE None]
        overflows == e.tag = "Some" /\ clock + e.val > U64Max
    IN /\ m \in ExpiryMaps
       /\ \/ /\ overflows
             /\ BeginReturn(t, o, Panicked)
             /\ UNCHANGED current_time
          \/ /\ Begin(t, o, "insert")
             /\ current_time' =
                   [current_time EXCEPT ![t] =
                      IF e.tag = "Some" THEN Some(WrapU64(clock + e.val)) ELSE None]
       /\ UNCHANGED <<clock, shape, shard_of, string_store,
                      data_store, atomic_store, refs, last_store, incs, redis>>

\* Variant of the insert that replaces the value only and leaves the expiry
\* of an entry that is already there.
InsertKeepingExpiry(t) ==
    LET m == op[t].map
        k == op[t].key
    IN /\ pc[t] = "insert"
       /\ WriteLockFree(m, k)
       /\ SetMap(m, MapInsert(Map(m), k,
                              [value |-> op[t].value,
                               expiry |-> IF k \in DOMAIN Map(m) THEN Map(m)[k].expiry
                                          ELSE current_time[t]]))
       /\ pc' = [pc EXCEPT ![t] = "idle"]
       /\ ret' = [ret EXCEPT ![t] =
                     StoreResult(op[t], OkState(StoreStateOf(Map(m), k)),
                                 PrevOf(Map(m), k))]
       /\ op' = [op EXCEPT ![t] = NoOp]
       /\ current_time' = [current_time EXCEPT ![t] = None]
       /\ last_store' = [last_store EXCEPT ![m][k] = Stored(op[t].value, op[t].deadline, op[t].n)]
       /\ UNCHANGED refs
       /\ UNCHANGED <<calls, clock, shape, shard_of, incs, redis>>

\* store_with_expiry, second statement: the insert and the match on its result.
Insert(t) ==
    LET m == op[t].map
        k == op[t].key
    IN /\ pc[t] = "insert"
       /\ WriteLockFree(m, k)
       /\ SetMap(m, MapInsert(Map(m), k,
                              [value |-> op[t].value, expiry |-> current_time[t]]))
       /\ pc' = [pc EXCEPT ![t] = "idle"]
       /\ ret' = [ret EXCEPT ![t] =
                     StoreResult(op[t], OkState(StoreStateOf(Map(m), k)),
                                 PrevOf(Map(m), k))]
       /\ op' = [op EXCEPT ![t] = NoOp]
       /\ current_time' = [current_time EXCEPT ![t] = None]
       /\ last_store' = [last_store EXCEPT ![m][k] = Stored(op[t].value, op[t].deadline, op[t].n)]
       /\ UNCHANGED refs
       /\ UNCHANGED <<calls, clock, shape, shard_of, incs, redis>>

\* load_string / load_raw: `match self.<map>.get(&key)`.
LoadGet(t, m, k) ==
    LET o == [name |-> "load", map |-> m, key |-> k, n |-> calls + 1]
    IN /\ m \in ExpiryMaps
       /\ IF k \in DOMAIN Map(m)
          THEN /\ Begin(t, o, "load_match")
               /\ refs' = [refs EXCEPT ![t] = RefTo(m, k)]
          ELSE /\ BeginReturn(t, o, None)
               /\ UNCHANGED refs
       /\ UNCHANGED <<clock, shape, shard_of, string_store,
                      data_store, atomic_store, current_time, last_store, incs, redis>>

\* load: `match expiry { Some(expiry) if expiry < &now() => ..., _ => Ok(Some(..)) }`
\* evaluated while the Ref `value` is alive.
LoadMatch(t) ==
    LET entry == Map(op[t].map)[op[t].key]
    IN /\ pc[t] = "load_match"
       /\ IF IsExpired(entry.expiry, clock)
          THEN \* calls remove (directly or through delete_*), the Ref still held
               /\ pc' = [pc EXCEPT ![t] = "remove"]
               /\ UNCHANGED <<ret, refs, op>>
          ELSE Return(t, Some(entry.value))
       /\ UNCHANGED <<calls, clock, shape, shard_of, string_store,
                      data_store, atomic_store, current_time, last_store, incs, redis>>

\* delete_string / delete_raw / atomic_delete are called.
Delete(t, m, k) ==
    /\ Begin(t, [name |-> "delete", map |-> m, key |-> k, n |-> calls + 1], "remove")
    /\ UNCHANGED <<clock, shape, shard_of, string_store, data_store,
                   atomic_store, refs, current_time, last_store, incs, redis>>

\* `self.<map>.remove(&key)`: the body of delete_*, and the purge inside load.
Remove(t) ==
    LET m == op[t].map
        k == op[t].key
    IN /\ pc[t] = "remove"
       /\ WriteLockFree(m, k)
       /\ SetMap(m, MapRemove(Map(m), k))
       /\ pc' = [pc EXCEPT ![t] = "idle"]
       /\ ret' = [ret EXCEPT ![t] =
                     IF op[t].name = "load" THEN ResultOf(t, None)
                     ELSE StoreResult(op[t], OkUnit,
                                      IF k \in DOMAIN Map(m) THEN "entry" ELSE "none")]
       /\ op' = [op EXCEPT ![t] = NoOp]
       /\ refs' = [refs EXCEPT ![t] = NoRef]
       /\ last_store' = [last_store EXCEPT ![m][k] = [tag |-> "removed", n |-> op[t].n]]
       /\ incs' = IF m = "atomic_store" THEN [incs EXCEPT ![k] = -1] ELSE incs
       /\ UNCHANGED <<calls, clock, shape, shard_of, current_time, redis>>

---------------------------------------------------------------------------
(* Counters: atomic_store, atomic_load, atomic_increment *)

\* Variant of atomic_store that adds the value to a cell that is already there.
AtomicStoreAdditive(t, k, v) ==
    LET o == [name |-> "atomic_store", map |-> "atomic_store", key |-> k, value |-> v,
              n |-> calls + 1]
    IN /\ WriteLockFree("atomic_store", k)
       /\ MayCall(t)
       /\ calls' = calls + 1
       /\ ret' = [ret EXCEPT ![t] =
                     StoreResult(o, OkState(StoreStateOf(atomic_store, k)),
                                 IF k \in DOMAIN atomic_store
                                 THEN Some(atomic_store[k]) ELSE None)]
       /\ atomic_store' = MapInsert(atomic_store, k,
                                     IF k \in DOMAIN atomic_store
                                     THEN WrapI64(atomic_store[k] + v) ELSE v)
       /\ last_store' = [last_store EXCEPT !["atomic_store"][k] = Stored(v, None, calls + 1)]
       /\ UNCHANGED <<pc, op>>
       /\ incs' = [incs EXCEPT ![k] = IF v = 0 THEN 0 ELSE -1]
       /\ UNCHANGED <<clock, shape, shard_of, string_store,
                      data_store, refs, current_time, redis>>

\* atomic_store: insert a fresh AtomicI64 and match on insert's result.
AtomicStore(t, k, v) ==
    LET o == [name |-> "atomic_store", map |-> "atomic_store", key |-> k, value |-> v,
              n |-> calls + 1]
    IN /\ WriteLockFree("atomic_store", k)
       /\ MayCall(t)
       /\ calls' = calls + 1
       /\ ret' = [ret EXCEPT ![t] =
                     StoreResult(o, OkState(StoreStateOf(atomic_store, k)),
                                 IF k \in DOMAIN atomic_store
                                 THEN Some(atomic_store[k]) ELSE None)]
       /\ atomic_store' = MapInsert(atomic_store, k, v)
       /\ last_store' = [last_store EXCEPT !["atomic_store"][k] = Stored(v, None, calls + 1)]
       /\ UNCHANGED <<pc, op>>
       /\ incs' = [incs EXCEPT ![k] = IF v = 0 THEN 0 ELSE -1]
       /\ UNCHANGED <<clock, shape, shard_of, string_store,
                      data_store, refs, current_time, redis>>

\* Variant of atomic_load for which a counter lasts only for the second it
\* was first seen in.
AtomicLoadGetExpiring(t, k) ==
    LET o == [name |-> "atomic_load", map |-> "atomic_store", key |-> k, n |-> calls + 1]
    IN /\ IF k \in DOMAIN atomic_store /\ clock = StartClock
          THEN /\ Begin(t, o, "atomic_read")
               /\ refs' = [refs EXCEPT ![t] = RefTo("atomic_store", k)]
          ELSE /\ BeginReturn(t, o, None)
               /\ UNCHANGED refs
       /\ UNCHANGED <<clock, shape, shard_of, string_store,
                      data_store, atomic_store, current_time, last_store, incs, redis>>

\* atomic_load: `match self.atomic_store.get(&key)`.
AtomicLoadGet(t, k) ==
    LET o == [name |-> "atomic_load", map |-> "atomic_store", key |-> k, n |-> calls + 1]
    IN /\ IF k \in DOMAIN atomic_store
          THEN /\ Begin(t, o, "atomic_read")
               /\ refs' = [refs EXCEPT ![t] = RefTo("atomic_store", k)]
          ELSE /\ BeginReturn(t, o, None)
               /\ UNCHANGED refs
       /\ UNCHANGED <<clock, shape, shard_of, string_store,
                      data_store, atomic_store, current_time, last_store, incs, redis>>

\* atomic_load: `Ok(Some(value.load(SeqCst)))`, then the Ref is dropped.
AtomicRead(t) ==
    /\ pc[t] = "atomic_read"
    /\ Return(t, Some(atomic_store[op[t].key]))
    /\ UNCHANGED <<calls, clock, shape, shard_of, string_store, data_store,
                   atomic_store, current_time, last_store, incs, redis>>

\* Variant of atomic_increment that creates the cell when the key has none.
AtomicIncrementUpsert(t, k, d) ==
    LET o == [name |-> "atomic_increment", map |-> "atomic_store", key |-> k, value |-> d,
              n |-> calls + 1]
    IN /\ IF k \in DOMAIN atomic_store
          THEN /\ Begin(t, o, "fetch_add")
               /\ refs' = [refs EXCEPT ![t] = RefTo("atomic_store", k)]
               /\ UNCHANGED atomic_store
          ELSE /\ BeginReturn(t, o, None)
               /\ atomic_store' = MapInsert(atomic_store, k, d)
               /\ UNCHANGED refs
       /\ UNCHANGED <<clock, shape, shard_of, string_store,
                      data_store, current_time, last_store, incs, redis>>

\* atomic_increment: `let output = self.atomic_store.get(&key)` and the None arm.
AtomicIncrementGet(t, k, d) ==
    LET o == [name |-> "atomic_increment", map |-> "atomic_store", key |-> k, value |-> d,
              n |-> calls + 1]
    IN /\ IF k \in DOMAIN atomic_store
          THEN /\ Begin(t, o, "fetch_add")
               /\ refs' = [refs EXCEPT ![t] = RefTo("atomic_store", k)]
          ELSE /\ BeginReturn(t, o, None)
               /\ UNCHANGED refs
       /\ UNCHANGED <<clock, shape, shard_of, string_store,
                      data_store, atomic_store, current_time, last_store, incs, redis>>

\* atomic_increment: `Ok(Some(atomic.fetch_add(value, SeqCst)))`, then the Ref is dropped.
\* incs counts the increments by 1 while the count fits an i64.
FetchAdd(t) ==
    LET k == op[t].key
        d == op[t].value
        c == atomic_store[k]
    IN /\ pc[t] = "fetch_add"
       /\ atomic_store' = [atomic_store EXCEPT ![k] = FetchAddCell(c, d)]
       /\ pc' = [pc EXCEPT ![t] = "idle"]
       /\ ret' = [ret EXCEPT ![t] = IncrementResult(t, Some(FetchAddResult(c, d)))]
       /\ op' = [op EXCEPT ![t] = NoOp]
       /\ refs' = [refs EXCEPT ![t] = NoRef]
       /\ incs' = [incs EXCEPT ![k] =
                      IF d = 1 /\ incs[k] >= 0 /\ incs[k] < I64Max
                      THEN incs[k] + 1 ELSE -1]
       /\ UNCHANGED <<calls, clock, shape, shard_of, string_store,
                      data_store, current_time, last_store, redis>>

---------------------------------------------------------------------------
(* The in-process store, string and raw values, under concurrent callers *)

Next ==
    \/ Tick
    \/ \E t \in Threads, k \in Keys, e \in Ttls :
          StoreWithExpiry(t, shape, k, FreshValue, e)
    \/ \E t \in Threads : Insert(t)
    \/ \E t \in Threads, k \in Keys : LoadGet(t, shape, k)
    \/ \E t \in Threads : LoadMatch(t)
    \/ \E t \in Threads, k \in Keys : Delete(t, shape, k)
    \/ \E t \in Threads : Remove(t)

Spec == Init /\ [][Next]_vars

(* The in-process store, counters, under concurrent callers *)

InitAtomic ==
    /\ InitCommon
    /\ shape = "atomic_store"
    /\ \E f \in ShardAssignments : shard_of = [m \in Maps |-> f]

NextAtomic ==
    \/ \E t \in Threads, k \in Keys, v \in CounterValues : AtomicStore(t, k, v)
    \/ \E t \in Threads, k \in Keys : AtomicLoadGet(t, k)
    \/ \E t \in Threads : AtomicRead(t)
    \/ \E t \in Threads, k \in Keys, d \in Deltas : AtomicIncrementGet(t, k, d)
    \/ \E t \in Threads : FetchAdd(t)
    \/ \E t \in Threads, k \in Keys : Delete(t, "atomic_store", k)
    \/ \E t \in Threads : Remove(t)

SpecAtomic == InitAtomic /\ [][NextAtomic]_vars

(* The in-process store, the three shapes side by side: every call picks its
   shape.  The callers share one key, and a TTL is none or zero. *)

SharedKey == "k1"
ShapeTtls == {None, Some(0)}

InitShapes ==
    /\ InitCommon
    /\ shape = "all"
    /\ shard_of = [m \in Maps |-> [k \in Keys |-> "s1"]]

NextShapes ==
    \/ Tick
    \/ \E t \in Threads, m \in ExpiryMaps, e \in ShapeTtls :
          StoreWithExpiry(t, m, SharedKey, FreshValue, e)
    \/ \E t \in Threads : Insert(t)
    \/ \E t \in Threads, m \in ExpiryMaps : LoadGet(t, m, SharedKey)
    \/ \E t \in Threads : LoadMatch(t)
    \/ \E t \in Threads, m \in Maps : Delete(t, m, SharedKey)
    \/ \E t \in Threads : Remove(t)
    \/ \E t \in Threads, v \in CounterValues : AtomicStore(t, SharedKey, v)
    \/ \E t \in Threads : AtomicLoadGet(t, SharedKey)
    \/ \E t \in Threads : AtomicRead(t)
    \/ \E t \in Threads, d \in Deltas : AtomicIncrementGet(t, SharedKey, d)
    \/ \E t \in Threads : FetchAdd(t)

SpecShapes == InitShapes /\ [][NextShapes]_vars

---------------------------------------------------------------------------
(* The Redis adapter: texts *)

\* A Redis value is a byte string, modelled as a sequence of characters.
DigitChars == <<"0", "1", "2", "3", "4", "5", "6", "7", "8", "9">>

IsDigit(c) == \E i \in 1..10 : DigitChars[i] = c
DigitValue(c) == (CHOOSE i \in 1..10 : DigitChars[i] = c) - 1

RECURSIVE NatToText(_)
NatToText(n) ==
    IF n < 10 THEN <<DigitChars[n + 1]>>
    ELSE NatToText(n \div 10) \o <<DigitChars[(n % 10) + 1]>>

\* i64::to_string: the decimal text of a counter value.
I64ToString(n) == IF n < 0 THEN <<"-">> \o NatToText(-n) ELSE NatToText(n)

RECURSIVE TextToNat(_)
TextToNat(s) ==
    IF Len(s) = 0 THEN 0
    ELSE 10 * TextToNat(SubSeq(s, 1, Len(s) - 1)) + DigitValue(s[Len(s)])

AllDigits(s) == Len(s) > 0 /\ \A i \in 1..Len(s) : IsDigit(s[i])

\* Variant of the parse that reads a text that is no i64 as 0.
ParseI64Lenient(s) ==
    LET signed == Len(s) > 0 /\ s[1] \in {"-", "+"}
        digits == IF signed THEN SubSeq(s, 2, Len(s)) ELSE s
        n == IF signed /\ s[1] = "-" THEN -TextToNat(digits) ELSE TextToNat(digits)
    IN IF AllDigits(digits) /\ n >= I64Min /\ n <= I64Max
       THEN Some(n) ELSE Some(0)

\* str::parse::<i64>: an optional sign, then digits; None when the text is
\* not of that form or the number does not fit an i64.
ParseI64(s) ==
    LET signed == Len(s) > 0 /\ s[1] \in {"-", "+"}
        digits == IF signed THEN SubSeq(s, 2, Len(s)) ELSE s
        n == IF signed /\ s[1] = "-" THEN -TextToNat(digits) ELSE TextToNat(digits)
    IN IF AllDigits(digits) /\ n >= I64Min /\ n <= I64Max
       THEN Some(n) ELSE None

\* The integer the Redis server reads from a value (string2ll): "0", or an
\* optional minus and digits that do not start with 0; None otherwise.
RedisInteger(s) ==
    LET negative == Len(s) > 0 /\ s[1] = "-"
        digits == IF negative THEN SubSeq(s, 2, Len(s)) ELSE s
        n == IF negative THEN -TextToNat(digits) ELSE TextToNat(digits)
    IN IF s = <<"0">> THEN Some(0)
       ELSE IF AllDigits(digits) /\ digits[1] # "0" /\ n >= I64Min /\ n <= I64Max
       THEN Some(n) ELSE None

---------------------------------------------------------------------------
(* The Redis adapter.  All three shapes issue their commands on the key as
   given, in one keyspace; each command is one atomic step of the server. *)

\* Strings and byte vectors a caller stores: a text that is no number, a
\* number with a plus sign, and a number too large for an i64.
RedisTexts == {<<"x">>, <<"+", "1">>, <<"9">>}
\* A byte vector a caller stores.
RedisBytes == {<<"b">>}

\* A value of the keyspace: the bytes and the instant the key expires, if any.
RedisValue(text, expire_at) == [text |-> text, expire_at |-> expire_at]

\* The server answers for a key whose expiry instant has come as for a
\* missing key.
RedisLive(k) ==
    /\ k \in DOMAIN redis
    /\ redis[k].expire_at.tag = "Some" => clock < redis[k].expire_at.val

\* `expiry.map(|seconds| Expiration::EX(seconds as i64))`: the cast keeps the
\* bits, so a ttl above i64::MAX becomes negative.
Expiration(e) == IF e.tag = "Some" THEN Some(WrapI64(e.val)) ELSE None

\* store_with_expiry / store_raw_with_expiry, first command:
\* `self.client.exists(&key)`.
RedisStoreExists(t, m, k, v, e) ==
    /\ m \in ExpiryMaps
    /\ Begin(t, [name |-> "store", map |-> m, key |-> k, n |-> calls + 1,
                 text |-> v, expiration |-> Expiration(e), exists |-> RedisLive(k)],
             "redis_set")
    /\ UNCHANGED <<clock, shape, shard_of, string_store, data_store, atomic_store,
                   refs, current_time, last_store, incs, redis>>

\* atomic_store, first command: `self.client.exists(&key)`; the value to set
\* is `value.to_string()`.
RedisAtomicStoreExists(t, k, v) ==
    /\ Begin(t, [name |-> "atomic_store", map |-> "atomic_store", key |-> k,
                 n |-> calls + 1,
                 text |-> I64ToString(v), expiration |-> None, exists |-> RedisLive(k)],
             "redis_set")
    /\ UNCHANGED <<clock, shape, shard_of, string_store, data_store, atomic_store,
                   refs, current_time, last_store, incs, redis>>

\* Variant of the second command that takes the store state from the keyspace
\* at the moment of the set.
RedisSetChecking(t) ==
    LET o == op[t]
        refused == o.expiration.tag = "Some" /\ o.expiration.val <= 0
        expire_at == IF o.expiration.tag = "Some"
                     THEN Some(clock + o.expiration.val) ELSE None
    IN /\ pc[t] = "redis_set"
       /\ IF refused
          THEN /\ Return(t, Err("ConnectionError"))
               /\ UNCHANGED redis
          ELSE /\ redis' = MapInsert(redis, o.key, RedisValue(o.text, expire_at))
               /\ Return(t, OkState(IF RedisLive(o.key) THEN "Updated" ELSE "New"))
       /\ UNCHANGED <<calls, clock, shape, shard_of, string_store, data_store,
                      atomic_store, current_time, last_store, incs>>

\* The second command of a store: `self.client.set(key, value, expiration,
\* None, false)`, then the store state from `exists`.  SET with EX replaces the
\* value and its expiry; the server refuses an expire time that is not
\* positive, writes nothing, and the error comes back as ConnectionError.
RedisSet(t) ==
    LET o == op[t]
        refused == o.expiration.tag = "Some" /\ o.expiration.val <= 0
        expire_at == IF o.expiration.tag = "Some"
                     THEN Some(clock + o.expiration.val) ELSE None
    IN /\ pc[t] = "redis_set"
       /\ IF refused
          THEN /\ Return(t, Err("ConnectionError"))
               /\ UNCHANGED redis
          ELSE /\ redis' = MapInsert(redis, o.key, RedisValue(o.text, expire_at))
               /\ Return(t, OkState(IF o.exists THEN "Updated" ELSE "New"))
       /\ UNCHANGED <<calls, clock, shape, shard_of, string_store, data_store,
                      atomic_store, current_time, last_store, incs>>

\* load_string / load_raw: `self.client.get(&key)`.
RedisGet(t, m, k) ==
    /\ m \in ExpiryMaps
    /\ BeginReturn(t, [name |-> "load", map |-> m, key |-> k],
                   IF RedisLive(k) THEN Some(redis[k].text) ELSE None)
    /\ UNCHANGED <<clock, shape, shard_of, string_store, data_store, atomic_store,
                   refs, current_time, last_store, incs, redis>>

\* atomic_load: `self.client.get(&key)`, then `s.parse::<i64>()`.
RedisAtomicLoad(t, k) ==
    LET o == [name |-> "atomic_load", map |-> "atomic_store", key |-> k]
        parsed == ParseI64(redis[k].text)
    IN /\ BeginReturn(t, o,
                      IF ~RedisLive(k) THEN None
                      ELSE IF parsed.tag = "Some" THEN Some(parsed.val)
                      ELSE Err("DeserializationError"))
       /\ UNCHANGED <<clock, shape, shard_of, string_store, data_store, atomic_store,
                      refs, current_time, last_store, incs, redis>>

\* delete_string / delete_raw / atomic_delete: `self.client.del(&key)`.
RedisDelete(t, m, k) ==
    /\ BeginReturn(t, [name |-> "delete", map |-> m, key |-> k], OkUnit)
    /\ redis' = MapRemove(redis, k)
    /\ UNCHANGED <<clock, shape, shard_of, string_store, data_store, atomic_store,
                   refs, current_time, last_store, incs>>

\* atomic_increment: `self.client.incr_by(&key, value)` and `Ok(Some(result))`.
\* INCRBY reads a missing key as 0, writes the sum back as text (the key's
\* expiry stays) and replies with the sum; it replies with an error, and
\* writes nothing, when the value is not an integer or the sum does not fit
\* 64 bits.
RedisAtomicIncrement(t, k, d) ==
    LET o == [name |-> "atomic_increment", map |-> "atomic_store", key |-> k]
        old == IF RedisLive(k) THEN RedisInteger(redis[k].text) ELSE Some(0)
        sum == old.val + d
        expire_at == IF RedisLive(k) THEN redis[k].expire_at ELSE None
    IN IF old.tag = "Some" /\ sum >= I64Min /\ sum <= I64Max
       THEN /\ BeginReturn(t, o, Some(sum))
            /\ redis' = MapInsert(redis, k, RedisValue(I64ToString(sum), expire_at))
            /\ UNCHANGED <<clock, shape, shard_of, string_store, data_store,
                           atomic_store, refs, current_time, last_store, incs>>
       ELSE /\ BeginReturn(t, o, Err("ConnectionError"))
            /\ UNCHANGED <<clock, shape, shard_of, string_store, data_store,
                           atomic_store, refs, current_time, last_store, incs, redis>>

InitRedis ==
    /\ InitCommon
    /\ shape = "redis"
    /\ shard_of = [m \in Maps |-> [k \in Keys |-> "s1"]]

\* TTLs a caller of the adapter passes: none, one second, the largest u64.
RedisTtls == {None, Some(1), Some(U64Max)}

\* The callers share one key; byte vectors are stored with no TTL.
NextRedis ==
    \/ Tick
    \/ \E t \in Threads, v \in RedisTexts, e \in RedisTtls :
          RedisStoreExists(t, "string_store", SharedKey, v, e)
    \/ \E t \in Threads, v \in RedisBytes :
          RedisStoreExists(t, "data_store", SharedKey, v, None)
    \/ \E t \in Threads, v \in CounterValues : RedisAtomicStoreExists(t, SharedKey, v)
    \/ \E t \in Threads : RedisSet(t)
    \/ \E t \in Threads, m \in ExpiryMaps : RedisGet(t, m, SharedKey)
    \/ \E t \in Threads : RedisAtomicLoad(t, SharedKey)
    \/ \E t \in Threads, m \in Maps : RedisDelete(t, m, SharedKey)
    \/ \E t \in Threads, d \in Deltas : RedisAtomicIncrement(t, SharedKey, d)

SpecRedis == InitRedis /\ [][NextRedis]_vars

---------------------------------------------------------------------------
(* store_string / store_raw: the provided methods of the storage traits, for
   both backends *)

\* Variant of store_string that passes a TTL of one second.
StoreStringOneSecond(t, m, k, v) ==
    IF shape = "redis"
    THEN RedisStoreExists(t, m, k, v, Some(1))
    ELSE StoreWithExpiry(t, m, k, v, Some(1))

\* store_string / store_raw: `self.store_with_expiry(key, value, None).await`,
\* on the backend the trait is implemented for.
StoreString(t, m, k, v) ==
    IF shape = "redis"
    THEN RedisStoreExists(t, m, k, v, None)
    ELSE StoreWithExpiry(t, m, k, v, None)

\* The value of a store call: the call's own, as text for Redis.
StoreValue == IF shape = "redis" THEN I64ToString(FreshValue) ELSE FreshValue

\* A run uses the in-process store for strings, or for raw values, or the
\* Redis adapter for both.
InitStore ==
    /\ InitCommon
    /\ shape \in ExpiryMaps \cup {"redis"}
    /\ shard_of = [m \in Maps |-> [k \in Keys |-> "s1"]]

\* The maps a call of this run can name.
StoreMaps == IF shape = "redis" THEN ExpiryMaps ELSE {shape}

\* store_with_expiry is called with a TTL here, so that an entry without one
\* comes from store_string / store_raw.
NextStore ==
    \/ Tick
    \/ \E t \in Threads, m \in StoreMaps : StoreString(t, m, SharedKey, StoreValue)
    \/ \E t \in Threads, m \in StoreMaps :
          shape # "redis" /\ StoreWithExpiry(t, m, SharedKey, StoreValue, Some(1))
    \/ \E t \in Threads, m \in StoreMaps :
          shape = "redis" /\ RedisStoreExists(t, m, SharedKey, StoreValue, Some(1))
    \/ \E t \in Threads : Insert(t)
    \/ \E t \in Threads : RedisSet(t)
    \/ \E t \in Threads, m \in StoreMaps : shape # "redis" /\ LoadGet(t, m, SharedKey)
    \/ \E t \in Threads : LoadMatch(t)
    \/ \E t \in Threads, m \in StoreMaps : shape = "redis" /\ RedisGet(t, m, SharedKey)
    \/ \E t \in Threads, m \in StoreMaps : shape # "redis" /\ Delete(t, m, SharedKey)
    \/ \E t \in Threads : Remove(t)
    \/ \E t \in Threads, m \in StoreMaps : shape = "redis" /\ RedisDelete(t, m, SharedKey)

SpecStore == InitStore /\ [][NextStore]_vars

---------------------------------------------------------------------------
(* Steps of a call, as seen from outside *)

\* Thread t's call returns in this step.
Returns(t) == ret'[t] # ret[t] /\ ret'[t].call # "none"

\* Thread t's load settles in this step what it makes of key k: it returns at
\* once (no entry), or it leaves the match on the entry's expiry.
LoadSettles(t, k) ==
    \/ pc[t] = "idle" /\ Returns(t) /\ ret'[t].call = "load" /\ ret'[t].key = k
    \/ pc[t] = "load_match" /\ pc'[t] # "load_match" /\ op[t].key = k

\* The entry that is physically in the map of this run under key k.
Entry(k) == Map(shape)[k]

\* Thread t takes this step, and the map its call works on.
Acts(t) == pc'[t] # pc[t] \/ ret'[t] # ret[t]
ActingMap(t) ==
    IF op[t].name # "none" THEN op[t].map
    ELSE IF op'[t].name # "none" THEN op'[t].map
    ELSE ret'[t].map

\* What a load of key k in shape m returns from the Redis adapter, before and
\* after the step.
RedisLoadResult(m, k) ==
    IF ~RedisLive(k) THEN None
    ELSE IF m # "atomic_store" THEN Some(redis[k].text)
    ELSE IF ParseI64(redis[k].text).tag = "Some" THEN ParseI64(redis[k].text)
    ELSE Err("DeserializationError")
RedisLoadResultAfter(m, k) ==
    IF ~(RedisLive(k))' THEN None
    ELSE IF m # "atomic_store" THEN Some(redis'[k].text)
    ELSE IF ParseI64(redis'[k].text).tag = "Some" THEN ParseI64(redis'[k].text)
    ELSE Err("DeserializationError")

\* Map m after the step.
MapAfter(m) ==
    CASE m = "string_store" -> string_store'
      [] m = "data_store" -> data_store'
      [] m = "atomic_store" -> atomic_store'

---------------------------------------------------------------------------
(* Claims about string and raw values, checked under Spec *)

\* C1: no load (string or raw) ever returns a value from an entry whose
\* absolute expiry is strictly less than the clock value the load reads,
\* whether or not the entry is still physically in the map.
C1_NoExpiredValueReturned ==
    [][\A t \in Threads, k \in Keys :
          (LoadSettles(t, k) /\ pc'[t] = "idle" /\ ret'[t].res.tag = "Some")
          => /\ k \in DOMAIN Map(shape)
             /\ ret'[t].res.val = Entry(k).value
             /\ ~(Entry(k).expiry.tag = "Some" /\ Entry(k).expiry.val < clock)]_vars

\* C1 witness: a load has met an entry that is expired and still in the map,
\* and has not returned its value.
C1_Witness ==
    \E t \in Threads :
        /\ pc[t] = "remove"
        /\ op[t].name = "load"
        /\ op[t].key \in DOMAIN Map(shape)
        /\ Entry(op[t].key).expiry.tag = "Some"
        /\ Entry(op[t].key).expiry.val < clock
        /\ ret[t].call = "none"

C3_ExpiredLoadCanRemove ==
    \A t \in Threads :
        (pc[t] = "remove" /\ op[t].name = "load")
        => WriteLockFree(op[t].map, op[t].key)

\* C9: after a store of value v under key k with a ttl that is absent or
\* larger than the time elapsed since the store read the clock, and no store
\* or removal of k since, a load of k returns exactly v.
C9_RoundTrip ==
    [][\A t \in Threads, k \in Keys :
          LET h == last_store[shape][k]
          IN (/\ LoadSettles(t, k)
              /\ h.tag = "stored"
              /\ (h.deadline.tag = "Some" => h.deadline.val > clock))
             => (pc'[t] = "idle" /\ ret'[t].res = Some(h.value))]_vars

C18_NoTornEntry ==
    [][/\ \A k \in DOMAIN Map(shape) :
             LET h == last_store[shape][k]
             IN /\ h.tag = "stored"
                /\ Entry(k).value = h.value
                /\ Entry(k).expiry = IF h.deadline.tag = "Some"
                                     THEN Some(WrapU64(h.deadline.val)) ELSE None
       /\ \A t \in Threads :
             (pc[t] = "load_match" /\ pc'[t] = "idle")
             => LET h == last_store[shape][op[t].key]
                    written == IF h.deadline.tag = "Some"
                               THEN Some(WrapU64(h.deadline.val)) ELSE None
                IN /\ ret'[t].res = Some(h.value)
                   /\ written.tag = "Some" => written.val >= clock]_vars

\* C18 witness: a store replaced a live entry of the key, and a load called
\* after it returned the value of that store; the entry carries the expiry
\* that store wrote.
C18_Witness ==
    \E t, u \in Threads :
        /\ ret[u].call = "store" /\ ret[u].res = OkState("Updated")
        /\ ret[u].over = "live"
        /\ ret[t].call = "load" /\ ret[t].key = ret[u].key
        /\ ret[u].n < ret[t].n
        /\ last_store[shape][ret[u].key].tag = "stored"
        /\ last_store[shape][ret[u].key].n = ret[u].n
        /\ ret[t].res = Some(last_store[shape][ret[u].key].value)
        /\ last_store[shape][ret[u].key].deadline.tag = "Some"
        /\ Entry(ret[u].key).expiry = last_store[shape][ret[u].key].deadline

\* C20: two loads that run side by side on a key whose entry is expired both
\* terminate with absent and leave the key removed: when both have found the
\* entry expired and come to remove it, at least one of them can take the
\* shard's write lock and go on.
C20_ConcurrentExpiredLoadsTerminate ==
    \A t, u \in Threads :
        (/\ t # u
         /\ pc[t] = "remove" /\ op[t].name = "load"
         /\ pc[u] = "remove" /\ op[u].name = "load"
         /\ op[t].key = op[u].key)
        => \E w \in {t, u} : WriteLockFree(op[w].map, op[w].key)

---------------------------------------------------------------------------
(* Claims about counters, checked under SpecAtomic *)

\* C4: after atomic_store(k, 0) and N atomic_increment(k, 1) calls, under any
\* interleaving and with no other write to k, once all have returned the
\* counter holds exactly N.
C4_NoLostIncrement ==
    \A k \in Keys :
        (/\ incs[k] >= 0
         /\ \A t \in Threads : ~(pc[t] = "fetch_add" /\ op[t].key = k))
        => (k \in DOMAIN atomic_store /\ atomic_store[k] = incs[k])

\* C4 witness: both threads have incremented the counter by 1 since it was
\* set to 0, and it holds 2.
C4_Witness ==
    \E k \in Keys :
        /\ incs[k] = 2
        /\ atomic_store[k] = 2
        /\ \A t \in Threads : ret[t].call = "atomic_increment" /\ ret[t].key = k

C6_NoAutovivification ==
    [][\A t \in Threads :
          (/\ pc[t] = "idle"
           /\ Returns(t)
           /\ ret'[t].call \in {"atomic_increment", "atomic_load"}
           /\ ret'[t].key \notin DOMAIN atomic_store)
          => (ret'[t].res = None /\ atomic_store' = atomic_store)]_vars

\* C6 witness: after an atomic_delete of the key, an increment returned
\* absent and the key still has no cell.
C6_Witness ==
    \E t \in Threads :
        /\ ret[t].call = "atomic_increment"
        /\ ret[t].res = None
        /\ ret[t].key \notin DOMAIN atomic_store
        /\ last_store["atomic_store"][ret[t].key].tag = "removed"
        /\ last_store["atomic_store"][ret[t].key].n < ret[t].n

---------------------------------------------------------------------------
(* Claims about the Redis adapter, checked under SpecRedis *)

\* C7: the Redis adapter's atomic_increment on a key holding counter value c
\* returns Some(c), the value before the delta is applied, as the in-process
\* store does.
C7_RedisIncrementReturnsPrevious ==
    [][\A t \in Threads :
          (/\ Returns(t)
           /\ ret'[t].call = "atomic_increment"
           /\ RedisLive(ret'[t].key)
           /\ ParseI64(redis[ret'[t].key].text).tag = "Some")
          => ret'[t].res = Some(ParseI64(redis[ret'[t].key].text).val)]_vars

\* C8: the Redis adapter's atomic_increment on a key that has no counter
\* returns absent and writes nothing: the key is not created.
C8_RedisIncrementMissingKey ==
    [][\A t \in Threads :
          (/\ Returns(t)
           /\ ret'[t].call = "atomic_increment"
           /\ ~RedisLive(ret'[t].key))
          => (ret'[t].res = None /\ redis' = redis)]_vars

---------------------------------------------------------------------------
(* Claims about the three shapes side by side, checked under SpecShapes *)

\* C11: store_with_expiry and atomic_store return Updated exactly when an
\* entry for the key is physically in that shape's map immediately before the
\* write, and New otherwise; an expired entry that is still in the map counts
\* as present.
C11_UpdatedIffPhysicallyPresent ==
    [][\A t \in Threads :
          /\ (pc[t] = "insert" /\ pc'[t] = "idle")
             => ret'[t].res =
                   OkState(IF op[t].key \in DOMAIN Map(op[t].map) THEN "Updated" ELSE "New")
          /\ (pc[t] = "idle" /\ Returns(t) /\ ret'[t].call = "atomic_store")
             => ret'[t].res =
                   OkState(IF ret'[t].key \in DOMAIN atomic_store THEN "Updated" ELSE "New")]_vars

\* C11 witness: a store of raw bytes over an entry that had expired and was
\* still in the map returned Updated, and an atomic_store on the same key, whose
\* counter map was empty, returned New.
C11_Witness ==
    \E t, u \in Threads :
        /\ ret[t].call = "store"
        /\ ret[t].map = "data_store"
        /\ ret[t].over = "expired"
        /\ ret[t].res = OkState("Updated")
        /\ ret[u].call = "atomic_store"
        /\ ret[u].over = None
        /\ ret[u].res = OkState("New")

\* C12: delete (string, raw and counter) returns success whether or not the
\* key has an entry and leaves the key absent; on a key with no entry it
\* changes nothing, so a second delete gives the state and the result of the
\* first.
C12_DeleteIdempotent ==
    [][\A t \in Threads :
          (pc[t] = "remove" /\ op[t].name = "delete" /\ pc'[t] = "idle")
          => /\ ret'[t].res = OkUnit
             /\ op[t].key \notin DOMAIN MapAfter(op[t].map)
             /\ \A m \in Maps \ {op[t].map} : MapAfter(m) = Map(m)
             /\ op[t].key \notin DOMAIN Map(op[t].map)
                => MapAfter(op[t].map) = Map(op[t].map)]_vars

\* C12 witness: a delete that removed an entry and a later delete of the same
\* key in the same map, which found none, both returned success, and the key
\* is absent.
C12_Witness ==
    \E t, u \in Threads :
        /\ ret[t].call = "delete" /\ ret[u].call = "delete"
        /\ ret[t].map = ret[u].map /\ ret[t].key = ret[u].key
        /\ ret[t].n < ret[u].n
        /\ ret[t].over = "entry" /\ ret[u].over = "none"
        /\ ret[t].res = OkUnit /\ ret[u].res = OkUnit
        /\ ret[t].key \notin DOMAIN Map(ret[t].map)

\* C13: the string, raw and counter shapes have independent key namespaces:
\* every step of a store, load, delete or increment on one shape leaves the
\* maps of the other two shapes as they are, and what a load returns for key k
\* is decided by the entry under k in its own shape's map alone.
C13_ShapesIndependent ==
    [][\A t \in Threads :
          /\ Acts(t) => \A m \in Maps \ {ActingMap(t)} : MapAfter(m) = Map(m)
          /\ (pc[t] = "idle" /\ Returns(t) /\ ret'[t].call \in {"load", "atomic_load"})
             => (ret'[t].res = None /\ ret'[t].key \notin DOMAIN Map(ret'[t].map))
          /\ (pc[t] = "load_match" /\ pc'[t] = "idle")
             => /\ ret'[t].res = Some(Map(op[t].map)[op[t].key].value)
                /\ last_store[op[t].map][op[t].key].value = ret'[t].res.val
          /\ (pc[t] = "atomic_read" /\ pc'[t] = "idle")
             => ret'[t].res = Some(atomic_store[op[t].key])]_vars

\* C13 witness: the key holds a string and a counter at once, and a load of
\* the string, which was stored first, returned that string after the counter
\* was stored under the same key.
C13_Witness ==
    \E t, u \in Threads :
        /\ ret[t].call = "load" /\ ret[t].map = "string_store"
        /\ ret[t].key \in DOMAIN string_store
        /\ ret[t].res = Some(string_store[ret[t].key].value)
        /\ ret[u].call = "atomic_store" /\ ret[u].key = ret[t].key
        /\ ret[u].n < ret[t].n
        /\ last_store["string_store"][ret[t].key].n < ret[u].n
        /\ ret[t].key \in DOMAIN atomic_store

\* C17: counters never expire: a clock advance and every operation on the
\* string and raw shapes leave the counters as they are, and from an
\* atomic_store(k, v) until an atomic_delete(k) every atomic_load(k) returns
\* the counter's current value, never absent.
C17_CountersNeverExpire ==
    [][/\ clock' # clock => atomic_store' = atomic_store
       /\ \A k \in Keys :
             last_store["atomic_store"][k].tag = "stored" => k \in DOMAIN atomic_store
       /\ \A t \in Threads :
             /\ (Acts(t) /\ ActingMap(t) # "atomic_store") => atomic_store' = atomic_store
             /\ (pc[t] = "idle" /\ Returns(t) /\ ret'[t].call = "atomic_load")
                => /\ ret'[t].res = None
                   /\ last_store["atomic_store"][ret'[t].key].tag # "stored"
             /\ (pc[t] = "atomic_read" /\ pc'[t] = "idle")
                => ret'[t].res = Some(atomic_store[op[t].key])]_vars

\* C17 witness: after the clock advanced, with an expired string entry under
\* the same key, an atomic_load issued after the atomic_store returned the
\* counter's value.
C17_Witness ==
    \E t \in Threads :
        /\ clock > StartClock
        /\ ret[t].call = "atomic_load"
        /\ ret[t].key \in DOMAIN atomic_store
        /\ ret[t].res = Some(atomic_store[ret[t].key])
        /\ last_store["atomic_store"][ret[t].key].tag = "stored"
        /\ last_store["atomic_store"][ret[t].key].n < ret[t].n
        /\ ret[t].key \in DOMAIN string_store
        /\ IsExpired(string_store[ret[t].key].expiry, clock)

---------------------------------------------------------------------------
(* More claims about the Redis adapter, checked under SpecRedis *)

\* C14: in the Redis adapter the string, raw and counter shapes have
\* independent key namespaces: a store, delete or increment of key k in one
\* shape leaves what load_string, load_raw and atomic_load of k return in the
\* other shapes unchanged.
C14_RedisShapesIndependent ==
    [][\A t \in Threads :
          Acts(t) => \A m \in Maps \ {ActingMap(t)} :
                        RedisLoadResultAfter(m, SharedKey) = RedisLoadResult(m, SharedKey)]_vars

---------------------------------------------------------------------------
(* The claim about store_string / store_raw, checked under SpecStore *)

\* C15: for every backend, key and value, a step of store_string / store_raw
\* is the step store_with_expiry with no TTL takes from the same state, with
\* the same result and the same state after it; and the entry a store without
\* TTL writes carries no expiry.
C15_StoreIsStoreWithoutTtl ==
    [][\A t \in Threads, m \in ExpiryMaps :
          /\ StoreString(t, m, SharedKey, StoreValue)
             => IF shape = "redis"
                THEN RedisStoreExists(t, m, SharedKey, StoreValue, None)
                ELSE StoreWithExpiry(t, m, SharedKey, StoreValue, None)
          /\ (pc[t] = "insert" /\ pc'[t] = "idle" /\ op[t].map = m /\ op[t].deadline = None)
             => /\ MapAfter(m)[SharedKey] = [value |-> op[t].value, expiry |-> None]
                /\ ret'[t].res = OkState(StoreStateOf(Map(m), SharedKey))
          /\ (pc[t] = "redis_set" /\ pc'[t] = "idle" /\ op[t].map = m
                 /\ op[t].expiration = None)
             => /\ redis'[SharedKey] = RedisValue(op[t].text, None)
                /\ ret'[t].res = OkState(IF op[t].exists THEN "Updated" ELSE "New")]_vars

\* C15 witness: store_raw on the in-process store replaced an entry that had
\* a TTL and had expired: the call returned Updated and the entry now has no
\* expiry.
C15_Witness ==
    \E t \in Threads :
        /\ shape = "data_store"
        /\ ret[t].call = "store"
        /\ ret[t].over = "expired"
        /\ ret[t].res = OkState("Updated")
        /\ SharedKey \in DOMAIN data_store
        /\ data_store[SharedKey].expiry = None
        /\ last_store["data_store"][SharedKey].n = ret[t].n

\* C16: atomic_load of the Redis adapter returns Ok(absent) when the key is
\* missing, Ok(Some(n)) when the text under the key is a decimal numeral of
\* the i64 n (with or without a plus sign), and DeserializationError when the
\* text is no numeral of any i64; it never returns an integer the text does
\* not denote.
C16_AtomicLoadParses ==
    [][\A t \in Threads :
          (pc[t] = "idle" /\ Returns(t) /\ ret'[t].call = "atomic_load")
          => LET k == ret'[t].key
                 r == ret'[t].res
                 Numerals(n) == {I64ToString(n)} \cup
                                (IF n >= 0 THEN {<<"+">> \o I64ToString(n)} ELSE {})
             IN IF ~RedisLive(k) THEN r = None
                ELSE /\ \A n \in I64Min..I64Max :
                         redis[k].text \in Numerals(n) => r = Some(n)
                     /\ (\A n \in I64Min..I64Max : redis[k].text \notin Numerals(n))
                        => r = Err("DeserializationError")]_vars

\* C16 witness: atomic_load of a key that holds a stored string which is no
\* i64 returned DeserializationError.
C16_Witness ==
    \E t \in Threads :
        /\ ret[t].call = "atomic_load"
        /\ ret[t].res = Err("DeserializationError")
        /\ RedisLive(ret[t].key)
        /\ redis[ret[t].key].text \in {<<"x">>, <<"9">>}

---------------------------------------------------------------------------
(* More claims about string and raw values, checked under Spec *)

\* C21: the expiry check and the removal inside load are one atomic step with
\* respect to the other operations on the key, so a store that runs side by
\* side with a load of an expired entry is not lost: while the load stands
\* between its check and its removal and the store stands before its insert,
\* the load can remove the entry or the store can write its own, and a later
\* load finds the stored value.
C21_StoreBesideExpiredLoadNotLost ==
    \A s, l \in Threads :
        (/\ pc[s] = "insert"
         /\ pc[l] = "remove" /\ op[l].name = "load"
         /\ op[s].map = op[l].map /\ op[s].key = op[l].key)
        => \/ WriteLockFree(op[l].map, op[l].key)
           \/ WriteLockFree(op[s].map, op[s].key)

---------------------------------------------------------------------------
(* The claim about concurrent writers of the Redis adapter, checked under
   SpecRedis *)

\* C22: in the Redis adapter the store state comes from an existence check
\* that is a command of its own, sent before the set: a store returns Updated
\* or New according to what its check saw, whatever the key holds by the time
\* of the set, so concurrent writers of one key can both be told New.
C22_StoreStateFromEarlierCheck ==
    [][\A t \in Threads :
          (pc[t] = "redis_set" /\ pc'[t] = "idle" /\ ret'[t].res.tag = "StoreState")
          => /\ ret'[t].res = OkState(IF op[t].exists THEN "Updated" ELSE "New")
             /\ op[t].key \in DOMAIN redis']_vars

\* C22 witness: two stores of the same key, which nothing had written before,
\* ran side by side, both returned New, and the key holds a value.
C22_Witness ==
    \E t, u \in Threads :
        /\ t # u
        /\ calls = 2
        /\ ret[t].call \in {"store", "atomic_store"}
        /\ ret[u].call \in {"store", "atomic_store"}
        /\ ret[t].key = ret[u].key
        /\ ret[t].res = OkState("New")
        /\ ret[u].res = OkState("New")
        /\ RedisLive(ret[t].key)

---------------------------------------------------------------------------
(* Claims about what a store writes, checked under Spec *)

\* C23: every store replaces both the value and the expiry of the entry that
\* was there: after the store the entry is the store's value with no expiry
\* when the store had no TTL, and with the expiry call time + TTL when it had
\* one, whatever the entry was before.
C23_StoreReplacesValueAndExpiry ==
    [][\A t \in Threads :
          (pc[t] = "insert" /\ pc'[t] = "idle")
          => MapAfter(op[t].map)[op[t].key] =
                [value |-> op[t].value, expiry |-> op[t].deadline]]_vars

\* C27: for every ttl of the u64 range store_with_expiry computes the expiry
\* now + ttl with no wrap-around: the call does not fail on the addition, and
\* the expiry it is about to insert is the sum, which is not below the call
\* time.
C27_ExpiryIsCallTimePlusTtl ==
    \A t \in Threads :
        /\ ret[t].call = "store" => ret[t].res # Panicked
        /\ pc[t] = "insert" => current_time[t] = op[t].deadline

---------------------------------------------------------------------------
(* The in-process store, the three shapes and two keys: every call picks its
   shape and its key.  The clock stands still and a TTL is none or zero, so
   every entry is live; a counter is stored with the value 1. *)

InitFrame ==
    /\ InitCommon
    /\ shape = "all"
    /\ shard_of = [m \in Maps |-> [k \in Keys |-> "s1"]]

NextFrame ==
    \/ \E t \in Threads, m \in ExpiryMaps, k \in Keys, e \in ShapeTtls :
          StoreWithExpiry(t, m, k, FreshValue, e)
    \/ \E t \in Threads : Insert(t)
    \/ \E t \in Threads, m \in ExpiryMaps, k \in Keys : LoadGet(t, m, k)
    \/ \E t \in Threads : LoadMatch(t)
    \/ \E t \in Threads, m \in Maps, k \in Keys : Delete(t, m, k)
    \/ \E t \in Threads : Remove(t)
    \/ \E t \in Threads, k \in Keys : AtomicStore(t, k, 1)
    \/ \E t \in Threads, k \in Keys : AtomicLoadGet(t, k)
    \/ \E t \in Threads : AtomicRead(t)
    \/ \E t \in Threads, k \in Keys, d \in Deltas : AtomicIncrementGet(t, k, d)
    \/ \E t \in Threads : FetchAdd(t)

SpecFrame == InitFrame /\ [][NextFrame]_vars

\* The call thread t is in, or starts or completes, in this step, and its key.
ActingCall(t) ==
    IF op[t].name # "none" THEN op[t].name
    ELSE IF op'[t].name # "none" THEN op'[t].name
    ELSE ret'[t].call
ActingKey(t) ==
    IF op[t].name # "none" THEN op[t].key
    ELSE IF op'[t].name # "none" THEN op'[t].key
    ELSE ret'[t].key

\* The entries of a map under the keys other than k.
Others(map, k) == [x \in (DOMAIN map) \ {k} |-> map[x]]

\* C24: atomic_load and a load of a live entry are read-only, every step of
\* theirs leaves all three maps as they are; and every step of a store, a
\* delete or an increment on key k leaves the entries of every other key of
\* its shape, and the other two shapes, as they are.
C24_ReadsAndOtherKeysUnchanged ==
    [][\A t \in Threads :
          Acts(t)
          => /\ ActingCall(t) \in {"load", "atomic_load"}
                => /\ string_store' = string_store
                   /\ data_store' = data_store
                   /\ atomic_store' = atomic_store
             /\ Others(MapAfter(ActingMap(t)), ActingKey(t))
                   = Others(Map(ActingMap(t)), ActingKey(t))
             /\ \A m \in Maps \ {ActingMap(t)} : MapAfter(m) = Map(m)]_vars

\* C24 witness: a string was stored under one key with a TTL of zero, then a
\* string under the other key, then a load of the first key returned its
\* value: both entries are in the map, the first as it was stored.
C24_Witness ==
    \E t, u \in Threads, k, j \in Keys :
        /\ k # j
        /\ ret[u].call = "store" /\ ret[u].map = "string_store" /\ ret[u].key = j
        /\ ret[u].res = OkState("New") /\ ret[u].n = 2
        /\ ret[t].call = "load" /\ ret[t].map = "string_store" /\ ret[t].key = k
        /\ ret[t].n = 3
        /\ k \in DOMAIN string_store /\ j \in DOMAIN string_store
        /\ last_store["string_store"][k].tag = "stored"
        /\ last_store["string_store"][k].n = 1
        /\ string_store[k] = [value |-> last_store["string_store"][k].value,
                              expiry |-> Some(clock)]
        /\ ret[t].res = Some(string_store[k].value)

---------------------------------------------------------------------------
(* The claim about concurrent first stores, checked under SpecShapes *)

\* C25: when the first two calls of a run are stores (store_with_expiry, or
\* atomic_store) of the same shape on the same key, which is absent
\* beforehand, and both have returned, then whatever way their steps
\* interleaved exactly one of them returned New and the other Updated.
C25_ExactlyOneNew ==
    \A t, u \in Threads :
        (/\ t # u
         /\ ret[t].call \in {"store", "atomic_store"}
         /\ ret[u].call = ret[t].call
         /\ ret[u].map = ret[t].map
         /\ ret[u].key = ret[t].key
         /\ {ret[t].n, ret[u].n} = {1, 2})
        => {ret[t].res, ret[u].res} = {OkState("New"), OkState("Updated")}

\* C25 witness: two store_with_expiry calls on the absent key overlapped: the
\* one called second inserted first and returned New, the one called first
\* returned Updated.
C25_Witness ==
    \E t, u \in Threads :
        /\ ret[t].call = "store" /\ ret[u].call = "store"
        /\ ret[u].map = ret[t].map /\ ret[u].key = ret[t].key
        /\ ret[t].n = 1 /\ ret[u].n = 2
        /\ ret[t].res = OkState("Updated")
        /\ ret[u].res = OkState("New")

---------------------------------------------------------------------------
(* More claims about counters, checked under SpecAtomic *)

====
